---- MODULE Spec2Model ----
(***************************************************************************)
(* Model of st_visium_datasets/feature_barcode.py.                         *)
(*                                                                         *)
(* Three calls are modelled, each as its own specification:                *)
(*   Spec          load_feature_barcode_matrix_df (with _load_mat,         *)
(*                 _load_features, _load_barcodes as its steps)             *)
(*   SpecBarcodes  _load_barcodes called by itself                         *)
(*   SpecProbe     load_prove_set_df                                       *)
(*                                                                         *)
(* Files are the environment: a file's content is chosen at the step that  *)
(* reads it and is kept in the state so that the result can be compared    *)
(* with it.  Strings are TLA+ strings; a line of a tab separated file is   *)
(* the sequence of its fields, as csv.reader yields it.                    *)
(***************************************************************************)
EXTENDS Integers, Sequences, FiniteSets, TLC

VARIABLES
    pathKind,       \* what feature_bc_matrix_dir denotes: "dir", "file", "missing"
    pc,             \* position in load_feature_barcode_matrix_df
    err,            \* the exception that ended the call, NoError otherwise
    log,            \* the steps executed so far, in order
    open,           \* the file handles currently open
    pending,        \* exception travelling through a `with` block, NoError otherwise
    matFile,        \* content of matrix.mtx.gz (once read)
    mat,            \* local `mat`
    featuresFile,   \* content of features.tsv.gz (once read)
    rows,           \* local `rows` of _load_features
    features,       \* locals feature_ids, gene_names, feature_types
    barcodesFile,   \* content of barcodes.tsv.gz (once read)
    barcodes,       \* local `barcodes`
    table,          \* the returned dataframe
    probePc,        \* position in load_prove_set_df
    probeFile,      \* content of the probe set CSV
    probeDf,        \* local `df` of load_prove_set_df
    probeErr        \* the exception that ended load_prove_set_df

assembleVars == <<pathKind, pc, err, log, open, pending, matFile, mat, featuresFile,
                  rows, features, barcodesFile, barcodes, table>>
probeVars == <<probePc, probeFile, probeDf, probeErr>>
vars == <<assembleVars, probeVars>>

(***************************************************************************)
(* Bounds of the model.                                                    *)
(***************************************************************************)
MaxDim == 2          \* declared rows / cols of the matrix: 0..MaxDim
MaxNnz == 2          \* entries in the matrix file
MaxFeatLines == 2    \* lines of features.tsv.gz
MaxFeatFields == 4   \* fields on one line of features.tsv.gz
MaxBcLines == 2      \* lines of barcodes.tsv.gz
MaxBcFields == 2     \* fields on one line of barcodes.tsv.gz

Min(S) == CHOOSE x \in S : \A y \in S : x <= y
SeqsUpTo(S, n) == UNION {[1..k -> S] : k \in 0..n}
Range(s) == {s[i] : i \in 1..Len(s)}

NoError == "none"
None == <<>>

(***************************************************************************)
(* Inputs.                                                                 *)
(***************************************************************************)
PathKinds == {"dir", "file", "missing"}

\* Values a matrix entry may carry.
EntryValues == {1, 2}

\* A matrix file: header well formed or not, the `rows cols nnz` line, and the
\* entry lines (1-indexed row, col, value), at most one per position.
MatEntries ==
    {e \in SUBSET ((1..MaxDim) \X (1..MaxDim) \X EntryValues) :
        /\ Cardinality(e) <= MaxNnz
        /\ \A a, b \in e : (a[1] = b[1] /\ a[2] = b[2]) => a = b}

MatFiles ==
    [header : {TRUE}, nrows : 0..MaxDim, ncols : 0..MaxDim, entries : MatEntries]
    \cup {[header |-> FALSE, nrows |-> 1, ncols |-> 1, entries |-> {}]}

\* Feature annotation records; a line of features.tsv.gz is a prefix of one
\* (fewer than 3 fields, exactly 3, or more than 3).
FeatureRecords ==
    { <<"ENSG01", "RER1", "Gene Expression", "x1", "x2", "x3">>,
      <<"ENSG02", "SAMD11", "Antibody Capture", "y1", "y2", "y3">> }

FeatureLines ==
    {SubSeq(rec, 1, k) : rec \in FeatureRecords, k \in 0..MaxFeatFields}

\* A gzip text file: readable or corrupt, and its lines.
TextFiles(lines, n) ==
    [readable : {TRUE}, lines : SeqsUpTo(lines, n)]
    \cup {[readable |-> FALSE, lines |-> <<>>]}

FeaturesFiles == TextFiles(FeatureLines, MaxFeatLines)

BarcodeStrings == {"AAA-1", "BBB-1", "gene"}
BarcodeLines == SeqsUpTo(BarcodeStrings, MaxBcFields)
BarcodesFiles == TextFiles(BarcodeLines, MaxBcLines)

\* Outcomes of the external collaborator get_nested_filepath.
LookupOutcomes == {"found", "not_found", "ambiguous"}

(***************************************************************************)
(* load_feature_barcode_matrix_df: the pure parts.                         *)
(***************************************************************************)

\* Variant of IsDir: Path.exists() in place of Path.is_dir().
IsDirExists(kind) == kind # "missing"

\* feature_bc_matrix_dir.is_dir()
IsDir(kind) == kind = "dir"

\* get_nested_filepath: the error it raises for an outcome other than "found".
GetNestedFilepathError(outcome) ==
    IF outcome = "not_found" THEN "FileNotFoundError" ELSE "AmbiguousFileError"

\* scipy.io.mmread accepts the file: header present, every entry inside the
\* declared dimensions.
MmParses(file) ==
    /\ file.header
    /\ \A e \in file.entries : e[1] <= file.nrows /\ e[2] <= file.ncols

\* Variant of MmRead: the file's 1-indexed positions taken as they are.
MmReadOneIndexed(file) ==
    [shape |-> <<file.nrows, file.ncols>>, coo |-> file.entries]

\* scipy.io.mmread: the coo_matrix, 0-indexed.
MmRead(file) ==
    [shape |-> <<file.nrows, file.ncols>>,
     coo |-> {<<e[1] - 1, e[2] - 1, e[3]>> : e \in file.entries}]

\* Value of the sparse matrix at 0-indexed (r, c).
CooValue(m, r, c) ==
    IF \E e \in m.coo : e[1] = r /\ e[2] = c
    THEN (CHOOSE e \in m.coo : e[1] = r /\ e[2] = c)[3]
    ELSE 0

\* zip(*rows): as many tuples as the shortest row has fields, none for no rows.
Zip(rs) ==
    IF rs = <<>> THEN <<>>
    ELSE LET n == Min({Len(rs[i]) : i \in 1..Len(rs)})
         IN  [j \in 1..n |-> [i \in 1..Len(rs) |-> rs[i][j]]]

\* feature_ids, gene_names, feature_types = zip(*rows): succeeds iff zip yields 3.
UnpackOk(z) == Len(z) = 3

\* Variant of Sum: one barcode per line, its first field.
SumFirstField(rs, start) ==
    LET lines == SelectSeq(rs, LAMBDA r : r # <<>>)
    IN  start \o [i \in 1..Len(lines) |-> lines[i][1]]

\* sum(reader, []): the rows concatenated in order.
RECURSIVE Sum(_, _)
Sum(rs, start) ==
    IF rs = <<>> THEN start ELSE Sum(Tail(rs), start \o Head(rs))

(***************************************************************************)
(* The dataframe: row labels, column labels, and the data column by        *)
(* column.  An operation on a frame that already failed keeps the failure. *)
(***************************************************************************)
DfError(e) == [error |-> e, index |-> <<>>, columns |-> <<>>, data |-> <<>>]

InsertAt(s, i, x) == SubSeq(s, 1, i - 1) \o <<x>> \o SubSeq(s, i, Len(s))

\* No dataframe: what `table` holds as long as nothing was returned.
NoTable == DfError("no table")

\* pd.DataFrame.sparse.from_spmatrix(mat)
FromSpmatrix(m) ==
    [error |-> NoError,
     index |-> [r \in 1..m.shape[1] |-> r - 1],
     columns |-> [c \in 1..m.shape[2] |-> c - 1],
     data |-> [c \in 1..m.shape[2] |->
                  [r \in 1..m.shape[1] |-> CooValue(m, r - 1, c - 1)]]]

\* Variant of SetColumns: labels cut or padded to the frame's width.
SetColumnsLenient(df, labels) ==
    IF df.error # NoError THEN df
    ELSE [df EXCEPT !.columns = [i \in 1..Len(df.columns) |->
                                    IF i <= Len(labels) THEN labels[i] ELSE "unnamed"]]

\* df.columns = labels
SetColumns(df, labels) ==
    IF df.error # NoError THEN df
    ELSE IF Len(labels) # Len(df.columns)
    THEN DfError("ValueError: length mismatch")
    ELSE [df EXCEPT !.columns = labels]

\* df.insert(loc, column, value), loc 0-indexed
Insert(df, loc, column, value) ==
    IF df.error # NoError THEN df
    ELSE IF column \in Range(df.columns)
    THEN DfError("ValueError: already exists")
    ELSE IF Len(value) # Len(df.index)
    THEN DfError("ValueError: length mismatch")
    ELSE IF loc > Len(df.columns)
    THEN DfError("IndexError")
    ELSE [df EXCEPT !.columns = InsertAt(@, loc + 1, column),
                    !.data = InsertAt(@, loc + 1, value)]

\* Position of the column labelled k.
ColumnPos(df, k) == CHOOSE i \in 1..Len(df.columns) : df.columns[i] = k

\* df.set_index(keys): the key columns become the row labels and are dropped.
SetIndex(df, keys) ==
    IF df.error # NoError THEN df
    ELSE IF \E i \in 1..Len(keys) : keys[i] \notin Range(df.columns)
    THEN DfError("KeyError")
    ELSE LET kept == SelectSeq([i \in 1..Len(df.columns) |-> i],
                               LAMBDA i : df.columns[i] \notin Range(keys))
         IN  [error |-> NoError,
              index |-> [r \in 1..Len(df.index) |->
                           [k \in 1..Len(keys) |-> df.data[ColumnPos(df, keys[k])][r]]],
              columns |-> [j \in 1..Len(kept) |-> df.columns[kept[j]]],
              data |-> [j \in 1..Len(kept) |-> df.data[kept[j]]]]

\* Lines 38-43 of load_feature_barcode_matrix_df.
BuildTable(m, fs, bcs) ==
    LET df0 == FromSpmatrix(m)
        df1 == SetColumns(df0, bcs)
        df2 == Insert(df1, 0, "feature_id", fs[1])
        df3 == Insert(df2, 1, "feature_type", fs[3])
        df4 == Insert(df3, 2, "gene", fs[2])
    IN  SetIndex(df4, <<"feature_id", "gene", "feature_type">>)

(***************************************************************************)
(* load_feature_barcode_matrix_df: the steps.                              *)
(***************************************************************************)
Init ==
    /\ pathKind \in PathKinds
    /\ pc = "is_dir"
    /\ err = NoError
    /\ log = <<>>
    /\ open = {}
    /\ pending = NoError
    /\ matFile = None
    /\ mat = None
    /\ featuresFile = None
    /\ rows = None
    /\ features = None
    /\ barcodesFile = None
    /\ barcodes = None
    /\ table = NoTable
    /\ probePc = "idle"
    /\ probeFile = None
    /\ probeDf = None
    /\ probeErr = NoError

\* raise e: the call ends, nothing is returned.
Raise(e) ==
    /\ pc' = "raised"
    /\ err' = e

Goto(next) ==
    /\ pc' = next
    /\ err' = err

\* if not feature_bc_matrix_dir.is_dir(): raise ValueError
CheckDir ==
    /\ pc = "is_dir"
    /\ log' = Append(log, "is_dir")
    /\ IF IsDir(pathKind)
       THEN Goto("lookup_matrix")
       ELSE Raise("ValueError: not a directory")
    /\ UNCHANGED <<pathKind, open, pending, matFile, mat, featuresFile, rows,
                   features, barcodesFile, barcodes, table, probeVars>>

\* get_nested_filepath(feature_bc_matrix_dir, name)
Lookup(step, next) ==
    /\ pc = step
    /\ log' = Append(log, step)
    /\ \E outcome \in LookupOutcomes :
         IF outcome = "found"
         THEN Goto(next)
         ELSE Raise(GetNestedFilepathError(outcome))
    /\ UNCHANGED <<pathKind, open, pending, matFile, mat, featuresFile, rows,
                   features, barcodesFile, barcodes, table, probeVars>>

LookupMatrix == Lookup("lookup_matrix", "read_matrix")
LookupFeatures == Lookup("lookup_features", "open_features")
LookupBarcodes == Lookup("lookup_barcodes", "open_barcodes")

\* scipy.io.mmread(mat_path)
ReadMatrix ==
    /\ pc = "read_matrix"
    /\ log' = Append(log, "read_matrix")
    /\ \E f \in MatFiles :
         /\ matFile' = f
         /\ IF MmParses(f)
            THEN mat' = MmRead(f) /\ Goto("lookup_features")
            ELSE mat' = mat /\ Raise("ParseError: matrix")
    /\ UNCHANGED <<pathKind, open, pending, featuresFile, rows, features,
                   barcodesFile, barcodes, table, probeVars>>

\* gzip.open(path, "rt") entering the with block
OpenFile(step, next, handle) ==
    /\ pc = step
    /\ log' = Append(log, step)
    /\ \E opened \in BOOLEAN :
         IF opened
         THEN open' = open \cup {handle} /\ Goto(next)
         ELSE open' = open /\ Raise("OSError")
    /\ UNCHANGED <<pathKind, pending, matFile, mat, featuresFile, rows, features,
                   barcodesFile, barcodes, table, probeVars>>

OpenFeatures == OpenFile("open_features", "read_features", "features")
OpenBarcodes == OpenFile("open_barcodes", "read_barcodes", "barcodes")

\* rows = list(csv.reader(f, delimiter="\t"))
ReadFeatures ==
    /\ pc = "read_features"
    /\ log' = Append(log, "read_features")
    /\ \E f \in FeaturesFiles :
         /\ featuresFile' = f
         /\ IF f.readable
            THEN rows' = f.lines /\ pending' = NoError
            ELSE rows' = rows /\ pending' = "ReadError"
    /\ Goto("close_features")
    /\ UNCHANGED <<pathKind, open, matFile, mat, features, barcodesFile, barcodes,
                   table, probeVars>>

\* Variant of WithExit: the exception is swallowed.
WithExitSwallows(handle, e) ==
    [open |-> open \ {handle}, raised |-> FALSE]

\* Variant of WithExit: the handle is closed on the normal path only.
WithExitLeaksOnError(handle, e) ==
    [open |-> IF e # NoError THEN open ELSE open \ {handle}, raised |-> e # NoError]

\* Leaving the with block: the handle is closed, a pending exception goes on.
WithExit(handle, e) ==
    [open |-> open \ {handle}, raised |-> e # NoError]

CloseFile(step, next, handle) ==
    /\ pc = step
    /\ log' = Append(log, step)
    /\ LET x == WithExit(handle, pending)
       IN  /\ open' = x.open
           /\ IF x.raised THEN Raise(pending) ELSE Goto(next)
    /\ pending' = NoError
    /\ UNCHANGED <<pathKind, matFile, mat, featuresFile, rows, features,
                   barcodesFile, barcodes, table, probeVars>>

CloseFeatures == CloseFile("close_features", "unpack_features", "features")
CloseBarcodes == CloseFile("close_barcodes", "construct", "barcodes")

\* feature_ids, gene_names, feature_types = zip(*rows); return
UnpackFeatures ==
    /\ pc = "unpack_features"
    /\ log' = Append(log, "unpack_features")
    /\ LET z == Zip(rows)
       IN  IF UnpackOk(z)
           THEN features' = z /\ Goto("lookup_barcodes")
           ELSE features' = features /\ Raise("ValueError: unpack")
    /\ UNCHANGED <<pathKind, open, pending, matFile, mat, featuresFile, rows,
                   barcodesFile, barcodes, table, probeVars>>

\* return sum(csv.reader(f, delimiter="\t"), [])
ReadBarcodes ==
    /\ pc = "read_barcodes"
    /\ log' = Append(log, "read_barcodes")
    /\ \E f \in BarcodesFiles :
         /\ barcodesFile' = f
         /\ IF f.readable
            THEN barcodes' = Sum(f.lines, <<>>) /\ pending' = NoError
            ELSE barcodes' = barcodes /\ pending' = "ReadError"
    /\ Goto("close_barcodes")
    /\ UNCHANGED <<pathKind, open, matFile, mat, featuresFile, rows, features,
                   table, probeVars>>

\* Lines 38-44: build the frame and return it.
Construct ==
    /\ pc = "construct"
    /\ log' = Append(log, "construct")
    /\ LET df == BuildTable(mat, features, barcodes)
       IN  IF df.error = NoError
           THEN table' = df /\ Goto("returned")
           ELSE table' = table /\ Raise(df.error)
    /\ UNCHANGED <<pathKind, open, pending, matFile, mat, featuresFile, rows,
                   features, barcodesFile, barcodes, probeVars>>

Next ==
    \/ CheckDir
    \/ LookupMatrix
    \/ ReadMatrix
    \/ LookupFeatures
    \/ OpenFeatures
    \/ ReadFeatures
    \/ CloseFeatures
    \/ UnpackFeatures
    \/ LookupBarcodes
    \/ OpenBarcodes
    \/ ReadBarcodes
    \/ CloseBarcodes
    \/ Construct

Spec == Init /\ [][Next]_vars

\* _load_barcodes called by itself on a directory: its four steps; it has
\* returned when control is at the statement after the call.
InitBarcodes ==
    /\ pathKind = "dir"
    /\ pc = "lookup_barcodes"
    /\ err = NoError
    /\ log = <<>>
    /\ open = {}
    /\ pending = NoError
    /\ matFile = None
    /\ mat = None
    /\ featuresFile = None
    /\ rows = None
    /\ features = None
    /\ barcodesFile = None
    /\ barcodes = None
    /\ table = NoTable
    /\ probePc = "idle"
    /\ probeFile = None
    /\ probeDf = None
    /\ probeErr = NoError

NextBarcodes ==
    \/ LookupBarcodes
    \/ OpenBarcodes
    \/ ReadBarcodes
    \/ CloseBarcodes

SpecBarcodes == InitBarcodes /\ [][NextBarcodes]_vars

(***************************************************************************)
(* Properties of load_feature_barcode_matrix_df, checked under Spec (C5,    *)
(* a property of _load_barcodes, under SpecBarcodes).                      *)
(***************************************************************************)
StepOrder ==
    <<"is_dir", "lookup_matrix", "read_matrix", "lookup_features", "open_features",
      "read_features", "close_features", "unpack_features", "lookup_barcodes",
      "open_barcodes", "read_barcodes", "close_barcodes", "construct">>

IsPrefix(s, t) == Len(s) <= Len(t) /\ \A i \in 1..Len(s) : s[i] = t[i]
Executed(step) == \E i \in 1..Len(log) : log[i] = step
Finished == pc \in {"returned", "raised"}

\* Number of fields on the first n lines.
RECURSIVE FieldsIn(_, _)
FieldsIn(lines, n) ==
    IF n = 0 THEN 0 ELSE FieldsIn(lines, n - 1) + Len(lines[n])

TotalFields(lines) == FieldsIn(lines, Len(lines))

\* s holds the fields of the lines, line after line, each line's in order.
IsFlatteningOf(s, lines) ==
    /\ Len(s) = TotalFields(lines)
    /\ \A i \in 1..Len(lines) : \A j \in 1..Len(lines[i]) :
         s[FieldsIn(lines, i - 1) + j] = lines[i][j]

\* The labels lines 40-42 insert: a frame that has one of them already as a
\* column label makes df.insert raise.
ReservedColumns == {"feature_id", "feature_type", "gene"}

\* The directory is valid in the sense of C1: the three files were found and
\* parsed, as many feature lines as matrix rows, as many barcodes as columns.
ValidDirectory ==
    /\ Executed("construct")
    /\ Len(featuresFile.lines) = matFile.nrows
    /\ TotalFields(barcodesFile.lines) = matFile.ncols

\* C1: for every valid directory the call returns a table whose i-th row key
\* is (feature_id, gene, feature_type) of the i-th feature line and whose
\* j-th column key is the j-th flattened barcode, whatever the barcodes are.
C1_KeysFollowFileOrder ==
    ValidDirectory =>
        /\ pc = "returned"
        /\ Len(table.index) = Len(featuresFile.lines)
        /\ \A i \in 1..Len(featuresFile.lines) :
             table.index[i] = <<featuresFile.lines[i][1], featuresFile.lines[i][2],
                                featuresFile.lines[i][3]>>
        /\ IsFlatteningOf(table.columns, barcodesFile.lines)

\* C1, the part that holds: a table that is returned has the feature lines'
\* first three fields as row keys and the flattened barcodes as column keys,
\* in file order, duplicates kept.
C1_ReturnedKeysFollowFileOrder ==
    pc = "returned" =>
        /\ Len(table.index) = Len(featuresFile.lines)
        /\ \A i \in 1..Len(featuresFile.lines) :
             table.index[i] = <<featuresFile.lines[i][1], featuresFile.lines[i][2],
                                featuresFile.lines[i][3]>>
        /\ IsFlatteningOf(table.columns, barcodesFile.lines)

\* Value the matrix file gives 1-indexed position (i, j): its entry, else zero.
FileValue(file, i, j) ==
    IF \E e \in file.entries : e[1] = i /\ e[2] = j
    THEN (CHOOSE e \in file.entries : e[1] = i /\ e[2] = j)[3]
    ELSE 0

\* C2: in a returned table the cell at row position r, column position c is
\* the value of the file's entry (r, c) (1-indexed in the file), zero where
\* the file has no entry; labelling rows and columns moves no cell.
C2_CellsEqualMatrix ==
    pc = "returned" =>
        /\ Len(table.data) = matFile.ncols
        /\ \A c \in 1..matFile.ncols :
             /\ Len(table.data[c]) = matFile.nrows
             /\ \A r \in 1..matFile.nrows :
                  table.data[c][r] = FileValue(matFile, r, c)

C2_Witness ==
    /\ pc = "returned"
    /\ matFile.nrows = 2 /\ matFile.ncols = 2
    /\ \E e \in matFile.entries : e[1] = 1 /\ e[2] = 2
    /\ \E e \in matFile.entries : e[1] = 2 /\ e[2] = 2
    /\ FileValue(matFile, 2, 1) = 0

\* C3: for a path that is no directory the call raises ValueError in its
\* first step: nothing was looked up, opened or read, and no table exists.
C3_NotADirectoryRaisesFirst ==
    pathKind # "dir" =>
        /\ pc \in {"is_dir", "raised"}
        /\ pc = "raised" =>
              /\ err = "ValueError: not a directory"
              /\ log = <<"is_dir">>
        /\ pc = "is_dir" => log = <<>>
        /\ open = {}
        /\ table = NoTable

C3_Witness == pathKind = "file" /\ pc = "raised"

\* C4: _load_features raises whenever some line does not have exactly 3
\* fields, whatever the other lines hold; when it returns, the three
\* sequences are as long as the file and aligned with its lines.
C4_FailsOnAnyBadLine ==
    Executed("unpack_features") =>
        /\ (\E i \in 1..Len(rows) : Len(rows[i]) # 3) =>
              (pc = "raised" /\ err = "ValueError: unpack")
        /\ ~(pc = "raised" /\ err = "ValueError: unpack") =>
              /\ Len(features) = 3
              /\ \A k \in 1..3 :
                   /\ Len(features[k]) = Len(rows)
                   /\ \A i \in 1..Len(rows) : features[k][i] = rows[i][k]

\* C5: _load_barcodes returns every field of every line, in line order; its
\* length is the number of fields of the file, not the number of lines.
C5_BarcodesAreFlattened ==
    (Executed("read_barcodes") /\ barcodesFile.readable) =>
        IsFlatteningOf(barcodes, barcodesFile.lines)

C5_Witness ==
    /\ pc = "close_barcodes"
    /\ barcodesFile.readable
    /\ Len(barcodesFile.lines) = 2
    /\ Len(barcodesFile.lines[1]) = 2
    /\ Len(barcodesFile.lines[2]) = 1
    /\ Len(barcodes) = 3

\* The errors a step raises by itself.
StepErrors(step) ==
    CASE step = "is_dir" -> {"ValueError: not a directory"}
      [] step \in {"lookup_matrix", "lookup_features", "lookup_barcodes"} ->
            {"FileNotFoundError", "AmbiguousFileError"}
      [] step = "read_matrix" -> {"ParseError: matrix"}
      [] step \in {"open_features", "open_barcodes"} -> {"OSError"}
      [] step \in {"close_features", "close_barcodes"} -> {"ReadError"}
      [] step = "unpack_features" -> {"ValueError: unpack"}
      [] step = "construct" ->
            {"ValueError: length mismatch", "ValueError: already exists"}
      [] OTHER -> {}

\* The features file lets _load_features return: readable, not empty, and its
\* shortest line has 3 fields.
FeaturesFileUnpacks ==
    /\ featuresFile.readable
    /\ featuresFile.lines # <<>>
    /\ \A i \in 1..Len(featuresFile.lines) : Len(featuresFile.lines[i]) >= 3
    /\ \E i \in 1..Len(featuresFile.lines) : Len(featuresFile.lines[i]) = 3

\* C8: the steps run in the order of StepOrder, each at most once; a step that
\* fails ends the call with its own error, no later step runs and no table is
\* returned; a table is returned only after every step succeeded.
C8_StepsInOrderFirstFailureEnds ==
    /\ IsPrefix(log, StepOrder)
    /\ pc = "raised" =>
          /\ log # <<>>
          /\ err \in StepErrors(log[Len(log)])
          /\ table = NoTable
    /\ pc = "returned" =>
          /\ log = StepOrder
          /\ err = NoError
          /\ table.error = NoError
    /\ ~Finished =>
          /\ pc = StepOrder[Len(log) + 1]
          /\ err = NoError
          /\ table = NoTable
    /\ Len(log) > 1 => pathKind = "dir"
    /\ Len(log) > 3 =>
          /\ matFile.header
          /\ \A e \in matFile.entries : e[1] <= matFile.nrows /\ e[2] <= matFile.ncols
    /\ Len(log) > 7 => featuresFile.readable
    /\ Len(log) > 8 => FeaturesFileUnpacks
    /\ Len(log) > 12 => barcodesFile.readable
    /\ pc = "returned" =>
          /\ Len(featuresFile.lines) = matFile.nrows
          /\ TotalFields(barcodesFile.lines) = matFile.ncols
          /\ \A i \in 1..Len(barcodes) : barcodes[i] \notin ReservedColumns

C8_Witness ==
    /\ pc = "raised"
    /\ err = "ValueError: unpack"
    /\ log = SubSeq(StepOrder, 1, 8)

C10_HandlesClosedOnEveryExit ==
    /\ Cardinality(open) <= 1
    /\ "features" \in open => pc \in {"read_features", "close_features"}
    /\ "barcodes" \in open => pc \in {"read_barcodes", "close_barcodes"}
    /\ Finished => open = {}

C10_Witness ==
    /\ pc = "raised"
    /\ err = "ReadError"
    /\ Executed("read_barcodes")
    /\ open = {}

(***************************************************************************)
(* load_prove_set_df.                                                      *)
(*                                                                         *)
(* A field of the CSV is its text, a sequence of lexemes in which "#" is   *)
(* the comment character; a line is the sequence of its fields, in header  *)
(* order.  NaN, what pandas stores for an empty or missing field, is the   *)
(* empty text.                                                             *)
(***************************************************************************)
MaxProbeLines == 2   \* lines after the header of the probe set CSV

NaN == <<>>

ProbeColumns == {"gene_id", "included", "extra"}

\* The header row: the columns in any order.
ProbeHeaders ==
    {h \in [1..Cardinality(ProbeColumns) -> ProbeColumns] :
        \A i, j \in 1..Cardinality(ProbeColumns) : h[i] = h[j] => i = j}

\* What a line holds for each column, and where it carries a "#": nowhere
\* (0), in front of its k-th field (2k-1) or behind it (2k).
ProbeRecords ==
    [gene_id : {"G1", "G2"}, included : {"True", "False"}, extra : {"x"},
     hash : 0..(2 * Cardinality(ProbeColumns))]

\* The line of the file for a record under header h.
RawLine(h, rec) ==
    [k \in 1..Len(h) |->
        IF rec.hash = 2 * k - 1 THEN <<"#", rec[h[k]]>>
        ELSE IF rec.hash = 2 * k THEN <<rec[h[k]], "#">>
        ELSE <<rec[h[k]]>>]

ProbeFiles ==
    UNION {[preamble : BOOLEAN, header : {h},
            lines : SeqsUpTo({RawLine(h, rec) : rec \in ProbeRecords}, MaxProbeLines)]
           : h \in ProbeHeaders}

\* comment="#": a line whose first character is "#" is ignored altogether.
IsCommentLine(line) == line[1][1] = "#"

HasHash(text) == \E i \in 1..Len(text) : text[i] = "#"

\* The text in front of its first "#".
BeforeHash(text) ==
    IF HasHash(text)
    THEN SubSeq(text, 1, Min({i \in 1..Len(text) : text[i] = "#"}) - 1)
    ELSE text

\* comment="#": the remainder of a line from its first "#" on is not parsed;
\* the fields it would have held are missing.
ParseLine(line) ==
    LET cut == {k \in 1..Len(line) : HasHash(line[k])}
    IN  [k \in 1..Len(line) |->
            IF cut = {} \/ k < Min(cut) THEN line[k]
            ELSE IF k = Min(cut) THEN BeforeHash(line[k])
            ELSE NaN]

\* A frame of load_prove_set_df: column labels and the rows, each aligned
\* with the labels.
\* pd.read_csv(probe_set_filepath, comment="#")
ReadCsv(file) ==
    LET data == SelectSeq(file.lines, LAMBDA l : ~IsCommentLine(l))
    IN  [columns |-> file.header,
         rows |-> [i \in 1..Len(data) |-> ParseLine(data[i])]]

\* df.rename(columns={old: new})
Rename(df, old, new) ==
    [df EXCEPT !.columns = [k \in 1..Len(df.columns) |->
                               IF df.columns[k] = old THEN new ELSE df.columns[k]]]

\* The values of the column labelled name.
Column(df, name) ==
    LET k == CHOOSE k \in 1..Len(df.columns) : df.columns[k] = name
    IN  [i \in 1..Len(df.rows) |-> df.rows[i][k]]

\* The dtype read_csv infers for the mask column: bool for True/False texts
\* only, float for missing values only, object otherwise.
MaskKind(values) ==
    IF values = <<>> THEN "empty"
    ELSE IF \A i \in 1..Len(values) : values[i] \in {<<"True">>, <<"False">>}
    THEN "bool"
    ELSE IF \A i \in 1..Len(values) : values[i] = NaN
    THEN "float"
    ELSE "object"

\* Variant of MaskRows: the mask negated.
MaskRowsInverted(df, values) ==
    LET keep == SelectSeq([i \in 1..Len(df.rows) |-> i],
                          LAMBDA i : values[i] # <<"True">>)
    IN  [df EXCEPT !.rows = [j \in 1..Len(keep) |-> df.rows[keep[j]]]]

\* df[mask]: the rows whose mask value is True, in order.
MaskRows(df, values) ==
    LET keep == SelectSeq([i \in 1..Len(df.rows) |-> i],
                          LAMBDA i : values[i] = <<"True">>)
    IN  [df EXCEPT !.rows = [j \in 1..Len(keep) |-> df.rows[keep[j]]]]

\* df.drop(columns=[name])
DropColumn(df, name) ==
    LET kept == SelectSeq([k \in 1..Len(df.columns) |-> k],
                          LAMBDA k : df.columns[k] # name)
    IN  [columns |-> [j \in 1..Len(kept) |-> df.columns[kept[j]]],
         rows |-> [i \in 1..Len(df.rows) |->
                      [j \in 1..Len(kept) |-> df.rows[i][kept[j]]]]]

NoFrame == [columns |-> <<>>, rows |-> <<>>]
NoProbeFile == [preamble |-> FALSE, header |-> <<>>, lines |-> <<>>]

InitProbe ==
    /\ pathKind = "dir"
    /\ pc = "idle"
    /\ err = NoError
    /\ log = <<>>
    /\ open = {}
    /\ pending = NoError
    /\ matFile = None
    /\ mat = None
    /\ featuresFile = None
    /\ rows = None
    /\ features = None
    /\ barcodesFile = None
    /\ barcodes = None
    /\ table = NoTable
    /\ probePc = "read_csv"
    /\ probeFile = NoProbeFile
    /\ probeDf = NoFrame
    /\ probeErr = NoError

\* df = pd.read_csv(probe_set_filepath, comment="#")
ProbeReadCsv ==
    /\ probePc = "read_csv"
    /\ \E f \in ProbeFiles :
         /\ probeFile' = f
         /\ probeDf' = ReadCsv(f)
    /\ probePc' = "rename"
    /\ UNCHANGED <<probeErr, assembleVars>>

\* df = df.rename(columns={"gene_id": "feature_id"})
ProbeRename ==
    /\ probePc = "rename"
    /\ probeDf' = Rename(probeDf, "gene_id", "feature_id")
    /\ probePc' = "filter"
    /\ UNCHANGED <<probeFile, probeErr, assembleVars>>

\* df = df[df["included"]].drop(columns=["included"]); return df
\* A mask that is not boolean (it holds a missing value) makes the indexing
\* raise; for a frame without rows the mask has no boolean dtype and the
\* outcome is left open between raising and the empty frame.
ProbeFilter ==
    /\ probePc = "filter"
    /\ LET mask == Column(probeDf, "included")
           kind == MaskKind(mask)
       IN  \/ /\ kind \in {"bool", "empty"}
              /\ probeDf' = DropColumn(MaskRows(probeDf, mask), "included")
              /\ probePc' = "returned"
              /\ probeErr' = probeErr
           \/ /\ kind \in {"object", "float", "empty"}
              /\ probeDf' = NoFrame
              /\ probePc' = "raised"
              /\ probeErr' = IF kind = "object" THEN "ValueError" ELSE "KeyError"
    /\ UNCHANGED <<probeFile, assembleVars>>

NextProbe ==
    \/ ProbeReadCsv
    \/ ProbeRename
    \/ ProbeFilter

SpecProbe == InitProbe /\ [][NextProbe]_vars

(***************************************************************************)
(* Properties of load_prove_set_df, checked under SpecProbe.               *)
(***************************************************************************)
HeaderPos(file, name) == CHOOSE k \in 1..Len(file.header) : file.header[k] = name

\* The header column a column of the result comes from.
OriginalName(name) == IF name = "feature_id" THEN "gene_id" ELSE name

\* The lines of the file that are data rows: those not starting with "#".
DataLines(file) == SelectSeq(file.lines, LAMBDA l : ~IsCommentLine(l))

C7_OnlyCommentLinesRemoved ==
    probePc = "returned" =>
        LET inc == HeaderPos(probeFile, "included")
            retained == SelectSeq(DataLines(probeFile),
                                  LAMBDA l : ParseLine(l)[inc] = <<"True">>)
            others(cols) == SelectSeq(cols, LAMBDA c :
                                c \notin {"gene_id", "included", "feature_id"})
        IN  /\ Len(probeDf.rows) = Len(retained)
            /\ others(probeDf.columns) = others(probeFile.header)
            /\ \A i \in 1..Len(retained) : \A j \in 1..Len(probeDf.columns) :
                 probeDf.columns[j] \notin {"feature_id"} =>
                     probeDf.rows[i][j] =
                         retained[i][HeaderPos(probeFile, probeDf.columns[j])]

====
